---- MODULE Spec2Model ----
(***************************************************************************)
(* A model of the Multimodal-tutor web application: the Flask routes of    *)
(* app/routes.py over the SQLAlchemy models of app/models.py, and the quiz *)
(* validation of modules/text_generation.py.                               *)
(*                                                                         *)
(* One request is one step.  The database is the users table, the          *)
(* quiz_history table, the user_video_completion table and the video       *)
(* table (video_course: the course of each video); the browser             *)
(* state is the Flask session of each client.  What a request received     *)
(* and what it answered is kept in `last`.  model_reply is the reply the   *)
(* Gemini model gives to a quiz prompt when a run fixes it beforehand.     *)
(*                                                                         *)
(* Strings of the forms are small naturals: 0 is the empty string, NoneV   *)
(* is Python's None (the field is missing from the form).                  *)
(***************************************************************************)
EXTENDS Integers, Sequences, FiniteSets, TLC

VARIABLES users, session, history, completed, video_course, gemini_configured,
          chat_model, model_reply, last

vars == <<users, session, history, completed, video_course, gemini_configured,
          chat_model, model_reply, last>>

(***************************************************************************)
(* Bounds of the model.                                                    *)
(***************************************************************************)
MaxHistory == 2
MaxQuestions == 2
MaxVideos == 50

NoneV == -1
EmptyStr == 0
NoUser == 0

Clients == {"c1", "c2"}
Emails == {1, 2}
Passwords == {1, 2}
Salts == {1, 2}

\* Python truthiness of an optional string: None and "" are falsy.
Truthy(s) == s # NoneV /\ s # EmptyStr

(***************************************************************************)
(* werkzeug.security: a stored hash is "method$salt$digest"; a string that *)
(* is not of that form is kept as method "plain".                          *)
(***************************************************************************)
\* The digest of a salted password: one-to-one in the password for a fixed
\* salt, over the passwords of the model.
Digest(salt, password) == (password * 7 + salt * 3) % 11

PlainStr(s) == [method |-> "plain", salt |-> 0, digest |-> s]

generate_password_hash(salt, password) ==
    [method |-> "hashed", salt |-> salt, digest |-> Digest(salt, password)]

check_password_hash(pwhash, password) ==
    /\ pwhash.method = "hashed"
    /\ Digest(pwhash.salt, password) = pwhash.digest

\* A set_password that stores the password as it is.
set_password_plain(user, salt, password) ==
    [user EXCEPT !.password_hash = PlainStr(password)]

\* User.set_password: the stored hash becomes a fresh salted hash.
set_password(user, salt, password) ==
    [user EXCEPT !.password_hash = generate_password_hash(salt, password)]

\* A check_password that accepts every password.
check_password_any(user, password) == TRUE

\* User.check_password; a None password makes the werkzeug call raise.
check_password(user, password) == check_password_hash(user.password_hash, password)

check_password_raises(password) == password = NoneV

(***************************************************************************)
(* The session of a client: 'user_id' (NoUser when the key is absent) and  *)
(* the set of ids u for which the key chat_history_<u> is present.         *)
(***************************************************************************)
EmptySession == [user_id |-> NoUser, chat_history |-> {}]

LoggedIn(c) == session[c].user_id # NoUser

\* A lookup that forgets the filter: the first user of the table.
UserByEmail_first(email) == IF users # <<>> THEN 1 ELSE NoUser

\* User.query.filter_by(email=email).first(): NoUser when there is none.
UserByEmail(email) ==
    IF \E i \in DOMAIN users : users[i].email = email
    THEN CHOOSE i \in DOMAIN users :
            /\ users[i].email = email
            /\ \A j \in DOMAIN users : users[j].email = email => i <= j
    ELSE NoUser

(***************************************************************************)
(* models.User.  A committed row has every NOT NULL column set; the id is  *)
(* the row's position in `users` (rows are never deleted).                 *)
(***************************************************************************)
DefaultPic == 0
NoHash == [method |-> "none", salt |-> 0, digest |-> 0]

\* User.__init__ derives the username from first_name.lower(): None raises.
UserInitRaises(first_name) == first_name = NoneV

\* User.__init__: the password is hashed only when it is truthy.
UserInit(first_name, last_name, dob, email, password, salt) ==
    LET base == [email |-> email, first_name |-> first_name, last_name |-> last_name,
                 dob |-> dob, profile_pic |-> DefaultPic, password_hash |-> NoHash]
    IN  IF Truthy(password) THEN set_password(base, salt, password) ELSE base

\* The NOT NULL columns of the user table.
NotNullOk(u) ==
    /\ u.first_name # NoneV
    /\ u.last_name # NoneV
    /\ u.email # NoneV
    /\ u.password_hash # NoHash

\* The UNIQUE constraint on user.email, for a row about to be inserted.
UniqueEmailOk(u) == \A i \in DOMAIN users : users[i].email # u.email

(***************************************************************************)
(* The requests.  Every action is one whole handler; `last` records the    *)
(* request and its answer, `calls` the external services it called.        *)
(***************************************************************************)
DbUnchanged == UNCHANGED <<users, history, completed>>
EnvUnchanged == UNCHANGED <<video_course, gemini_configured, chat_model, model_reply>>

Answer(route, c, status) ==
    [route |-> route, client |-> c, status |-> status, calls |-> <<>>, method |-> "GET"]

\* @main.route('/register')
Register(c, method, email, first_name, last_name, dob, password, salt, commit_ok) ==
    /\ IF method = "GET"
       THEN /\ last' = Answer("register", c, "200")
            /\ UNCHANGED users
       ELSE LET req == [route |-> "register", client |-> c, calls |-> <<>>,
                        status |-> "", flash |-> "", method |-> "POST",
                        email |-> email, password |-> password,
                        first_name |-> first_name, last_name |-> last_name,
                        commit_ok |-> commit_ok]
                new_user == UserInit(first_name, last_name, dob, email, password, salt)
            IN  IF UserByEmail(email) # NoUser
                THEN /\ last' = [req EXCEPT !.status = "302:login", !.flash = "danger"]
                     /\ UNCHANGED users
                ELSE IF \/ UserInitRaises(first_name)
                        \/ ~NotNullOk(new_user)
                        \/ ~UniqueEmailOk(new_user)
                        \/ ~commit_ok
                     THEN /\ last' = [req EXCEPT !.status = "500", !.flash = "none"]
                          /\ UNCHANGED users
                     ELSE /\ users' = Append(users, new_user)
                          /\ last' = [req EXCEPT !.status = "302:login", !.flash = "success"]
    /\ UNCHANGED <<session, history, completed>>
    /\ EnvUnchanged

\* @main.route('/login')
Login(c, method, email, password) ==
    LET req == [route |-> "login", client |-> c, calls |-> <<>>, status |-> "",
                method |-> method, email |-> email, password |-> password]
        user == UserByEmail(email)
    IN  /\ IF LoggedIn(c)
           THEN /\ last' = [req EXCEPT !.status = "302:dashboard"]
                /\ UNCHANGED session
           ELSE IF method = "POST"
           THEN IF user # NoUser /\ check_password_raises(password)
                THEN /\ last' = [req EXCEPT !.status = "500"]
                     /\ UNCHANGED session
                ELSE IF user # NoUser /\ check_password(users[user], password)
                THEN /\ session' = [session EXCEPT ![c].user_id = user]
                     /\ last' = [req EXCEPT !.status = "302:welcome"]
                ELSE /\ last' = [req EXCEPT !.status = "200:invalid"]
                     /\ UNCHANGED session
           ELSE /\ last' = [req EXCEPT !.status = "200"]
                /\ UNCHANGED session
        /\ DbUnchanged
        /\ EnvUnchanged

\* A logout that removes 'user_id' alone.
Logout_pop(c) ==
    /\ session' = [session EXCEPT ![c].user_id = NoUser]
    /\ last' = [route |-> "logout", client |-> c, status |-> "302:login", calls |-> <<>>,
                method |-> "GET", before |-> session[c]]
    /\ DbUnchanged
    /\ EnvUnchanged

\* @main.route('/logout'): session.clear(); `before` is the session it found.
Logout(c) ==
    /\ session' = [session EXCEPT ![c] = EmptySession]
    /\ last' = [route |-> "logout", client |-> c, status |-> "302:login", calls |-> <<>>,
                method |-> "GET", before |-> session[c]]
    /\ DbUnchanged
    /\ EnvUnchanged

\* @main.route('/'): dashboard when logged in, login otherwise.
Home(c) ==
    /\ last' = Answer("home", c, IF LoggedIn(c) THEN "302:dashboard" ELSE "302:login")
    /\ UNCHANGED session
    /\ DbUnchanged
    /\ EnvUnchanged

\* tutor_index, chat_page, generate_quiz_page, welcome: a template behind the
\* login check.
ProtectedPages == {"tutor_index", "chat_page", "generate_quiz_page", "welcome"}

ProtectedPage(c, route) ==
    /\ last' = Answer(route, c, IF LoggedIn(c) THEN "200" ELSE "302:login")
    /\ UNCHANGED session
    /\ DbUnchanged
    /\ EnvUnchanged

\* An uploaded picture: none, one with an allowed extension, one without.
PicUploads == {"none", "allowed", "disallowed"}

\* @main.route('/profile'); the stored picture name is "<user.id>_<filename>".
Profile(c, method, first_name, last_name, dob, pic, save_ok, commit_ok) ==
    LET uid == session[c].user_id
        req == [route |-> "profile", client |-> c, calls |-> <<>>, status |-> "",
                method |-> method, first_name |-> first_name, last_name |-> last_name]
        edited == [users[uid] EXCEPT !.first_name = first_name,
                                     !.last_name = last_name,
                                     !.dob = dob,
                                     !.profile_pic = IF pic = "allowed" THEN uid ELSE @]
    IN  /\ IF ~LoggedIn(c)
           THEN /\ last' = [req EXCEPT !.status = "302:login"]
                /\ UNCHANGED users
           ELSE IF method = "GET"
           THEN /\ last' = [req EXCEPT !.status = "200"]
                /\ UNCHANGED users
           ELSE IF \/ (pic = "allowed" /\ ~save_ok)
                   \/ ~NotNullOk(edited)
                   \/ ~commit_ok
                THEN /\ last' = [req EXCEPT !.status = "500"]
                     /\ UNCHANGED users
                ELSE /\ users' = [users EXCEPT ![uid] = edited]
                     /\ last' = [req EXCEPT !.status = "302:profile"]
        /\ UNCHANGED <<session, history, completed>>
        /\ EnvUnchanged

\* A change_password that does not check the current password.
ChangePassword_nocheck(c, current, new, confirm, salt, commit_ok) ==
    LET uid == session[c].user_id
        req == [route |-> "change_password", client |-> c, calls |-> <<>>, status |-> "",
                method |-> "POST", flash |-> "", current |-> current, new |-> new,
                confirm |-> confirm]
    IN  /\ IF ~LoggedIn(c)
           THEN /\ last' = [req EXCEPT !.status = "302:login"]
                /\ UNCHANGED users
           ELSE IF new # confirm
           THEN /\ last' = [req EXCEPT !.status = "302:profile", !.flash = "mismatch"]
                /\ UNCHANGED users
           ELSE IF new = NoneV \/ ~commit_ok
           THEN /\ last' = [req EXCEPT !.status = "500"]
                /\ UNCHANGED users
           ELSE /\ users' = [users EXCEPT ![uid] = set_password(@, salt, new)]
                /\ last' = [req EXCEPT !.status = "302:profile", !.flash = "success"]
        /\ UNCHANGED <<session, history, completed>>
        /\ EnvUnchanged

\* @main.route('/change_password')
ChangePassword(c, current, new, confirm, salt, commit_ok) ==
    LET uid == session[c].user_id
        req == [route |-> "change_password", client |-> c, calls |-> <<>>, status |-> "",
                method |-> "POST", flash |-> "", current |-> current, new |-> new,
                confirm |-> confirm]
    IN  /\ IF ~LoggedIn(c)
           THEN /\ last' = [req EXCEPT !.status = "302:login"]
                /\ UNCHANGED users
           ELSE IF check_password_raises(current)
           THEN /\ last' = [req EXCEPT !.status = "500"]
                /\ UNCHANGED users
           ELSE IF ~check_password(users[uid], current)
           THEN /\ last' = [req EXCEPT !.status = "302:profile", !.flash = "incorrect"]
                /\ UNCHANGED users
           ELSE IF new # confirm
           THEN /\ last' = [req EXCEPT !.status = "302:profile", !.flash = "mismatch"]
                /\ UNCHANGED users
           ELSE IF new = NoneV \/ ~commit_ok
           THEN /\ last' = [req EXCEPT !.status = "500"]
                /\ UNCHANGED users
           ELSE /\ users' = [users EXCEPT ![uid] = set_password(@, salt, new)]
                /\ last' = [req EXCEPT !.status = "302:profile", !.flash = "success"]
        /\ UNCHANGED <<session, history, completed>>
        /\ EnvUnchanged

\* A chat route without the login check.
Chat_open(c, is_json, message, outcome) ==
    LET req == [route |-> "chat", client |-> c, calls |-> <<>>, status |-> "",
                method |-> "POST"]
    IN  /\ IF ~is_json
           THEN last' = [req EXCEPT !.status = "500"]
           ELSE IF ~Truthy(message)
           THEN last' = [req EXCEPT !.status = "200:empty"]
           ELSE IF ~chat_model
           THEN last' = [req EXCEPT !.status = "500"]
           ELSE last' = [req EXCEPT !.calls = <<"chat_model">>,
                                    !.status = CASE outcome = "text" -> "200"
                                                 [] outcome = "empty" -> "200:noreply"
                                                 [] OTHER -> "500"]
        /\ UNCHANGED session
        /\ DbUnchanged
        /\ EnvUnchanged

\* @main.route('/chat'): request.json raises on a body that is not JSON, and
\* the handler's except turns every exception into a 500.
Chat(c, is_json, message, outcome) ==
    LET req == [route |-> "chat", client |-> c, calls |-> <<>>, status |-> "",
                method |-> "POST"]
    IN  /\ IF ~LoggedIn(c)
           THEN last' = [req EXCEPT !.status = "401"]
           ELSE IF ~is_json
           THEN last' = [req EXCEPT !.status = "500"]
           ELSE IF ~Truthy(message)
           THEN last' = [req EXCEPT !.status = "200:empty"]
           ELSE IF ~chat_model
           THEN last' = [req EXCEPT !.status = "500"]
           ELSE last' = [req EXCEPT !.calls = <<"chat_model">>,
                                    !.status = CASE outcome = "text" -> "200"
                                                 [] outcome = "empty" -> "200:noreply"
                                                 [] OTHER -> "500"]
        /\ UNCHANGED session
        /\ DbUnchanged
        /\ EnvUnchanged

(***************************************************************************)
(* JSON values as Python sees them after json.loads.  A string is a        *)
(* sequence of characters.                                                 *)
(***************************************************************************)
JStr(s) == [k |-> "str", s |-> s]
JInt(n) == [k |-> "int", n |-> n]
JNull == [k |-> "null"]
JList(l) == [k |-> "list", l |-> l]
JDict(d) == [k |-> "dict", d |-> d]

\* A None test that finds nothing missing.
IsNone_never(v) == FALSE

\* `None in [...]` of save_quiz_results, for one value.
IsNone(v) == v.k = "null"
IsStr(v) == v.k = "str"
IsList(v) == v.k = "list"
IsDict(v) == v.k = "dict"
HasKey(v, key) == key \in DOMAIN v.d

Digits == <<"0", "1", "2", "3", "4", "5", "6", "7", "8", "9">>

\* Python's str() of a JSON value (small numbers only; a container is
\* rendered by its brackets).
PyStr(v) ==
    CASE v.k = "str" -> v
      [] v.k = "int" -> JStr(IF v.n < 0 THEN <<"-", Digits[1 - v.n]>> ELSE <<Digits[v.n + 1]>>)
      [] v.k = "null" -> JStr(<<"N", "o", "n", "e">>)
      [] v.k = "list" -> JStr(<<"[", "]">>)
      [] OTHER -> JStr(<<"{", "}">>)

\* Python's `a in b` for two strings: a is a substring of b.
IsSubstring(a, b) ==
    \E i \in 0..(Len(b) - Len(a)) : SubSeq(b, i + 1, i + Len(a)) = a

ABCD == <<"A", "B", "C", "D">>

(***************************************************************************)
(* generate_quiz_json, the validation of the parsed quiz (lines 156-178).  *)
(***************************************************************************)
\* q["answer"] not in "ABCD"
AnswerRejected(answer) == ~IsSubstring(answer.s, ABCD)

\* isinstance(q["options"], dict), len 4, and every letter of "ABCD" a key.
OptionsValid(options) ==
    /\ IsDict(options)
    /\ Cardinality(DOMAIN options.d) = 4
    /\ \A i \in 1..4 : HasKey(options, ABCD[i])

\* One pass of the validation loop: "ok", or the exception it raises.
ValidateQuestion(q) ==
    IF ~IsDict(q) \/ ~(\A key \in {"question", "options", "answer"} : HasKey(q, key))
    THEN "ValueError"
    ELSE IF ~OptionsValid(q.d.options)
    THEN "ValueError"
    ELSE IF ~IsStr(q.d.answer)
    THEN "TypeError"
    ELSE IF AnswerRejected(q.d.answer)
    THEN "ValueError"
    ELSE "ok"

\* A validation that leaves the option values as they came.
ConvertOptions_keep(q) == q

\* "Ensure options are strings": str() of every option that is no string.
ConvertOptions(q) ==
    JDict([q.d EXCEPT !.options =
              JDict([key \in DOMAIN q.d.options.d |-> PyStr(q.d.options.d[key])])])

RECURSIVE ValidateQuestions(_)
ValidateQuestions(qs) ==
    IF qs = <<>> THEN "ok"
    ELSE LET r == ValidateQuestion(Head(qs))
         IN  IF r = "ok" THEN ValidateQuestions(Tail(qs)) ELSE r

RootValid(quiz_data) ==
    /\ IsDict(quiz_data)
    /\ HasKey(quiz_data, "questions")
    /\ IsList(quiz_data.d.questions)

Validate(quiz_data) ==
    IF ~RootValid(quiz_data) THEN "ValueError"
    ELSE IF quiz_data.d.questions.l = <<>> THEN "ValueError"
    ELSE ValidateQuestions(quiz_data.d.questions.l)

Validated(quiz_data) ==
    JDict([quiz_data.d EXCEPT !.questions =
              JList([i \in DOMAIN quiz_data.d.questions.l |->
                        ConvertOptions(quiz_data.d.questions.l[i])])])

(***************************************************************************)
(* The cleaning of the model's text (line 150).  A text is a sequence of   *)
(* characters; "OBJ" stands for the whole text of a JSON value that is not *)
(* null (it begins and ends with a bracket, a quote or a digit).           *)
(***************************************************************************)
Whitespace == {" "}
FenceJsonChars == {"bq", "j", "s", "o", "n"}
FenceChars == {"bq"}

RECURSIVE LStrip(_, _)
LStrip(text, chars) ==
    IF text # <<>> /\ Head(text) \in chars THEN LStrip(Tail(text), chars) ELSE text

RECURSIVE RStrip(_, _)
RStrip(text, chars) ==
    IF text # <<>> /\ text[Len(text)] \in chars
    THEN RStrip(SubSeq(text, 1, Len(text) - 1), chars)
    ELSE text

Strip(text) == RStrip(LStrip(text, Whitespace), Whitespace)

\* raw_text.strip().lstrip(FENCE + 'json').rstrip(FENCE).strip(), FENCE being
\* three backquotes; "bq" is the backquote character.  lstrip and rstrip take
\* a set of characters, not a prefix.
CleanText(text) == Strip(RStrip(LStrip(Strip(text), FenceJsonChars), FenceChars))

NullText == <<"n", "u", "l", "l">>

\* json.loads succeeds on the text of exactly one JSON value.
JsonParses(text) == text = <<"OBJ">> \/ text = NullText

JsonLoads(text, value) == IF text = NullText THEN JNull ELSE value

(***************************************************************************)
(* generate_quiz_json (lines 95-200).  A response of the model is          *)
(*   [kind |-> "raise"]        the model call raises                       *)
(*   [kind |-> "blocked", feedback_ok]   no parts                          *)
(*   [kind |-> "text_raises"]  parts, but response.text raises ValueError  *)
(*   [kind |-> "text", text, value]  the text, and the JSON value that     *)
(*                             "OBJ" in it stands for.                     *)
(* The result is [raised, value]: whether the function raised, and the     *)
(* value it returned.                                                      *)
(***************************************************************************)
ErrorDict(msg) == JDict([error |-> JStr(<<msg>>)])

Returned(value) == [raised |-> FALSE, value |-> value]

\* A route that takes no result for an error.
IsErrorResult_never(value) == FALSE

\* isinstance(quiz_data, dict) and 'error' in quiz_data
IsErrorResult(value) == IsDict(value) /\ HasKey(value, "error")

generate_quiz_json(configured, response) ==
    IF ~configured
    THEN Returned(ErrorDict("AI service not configured"))
    ELSE IF response.kind = "raise"
    THEN Returned(ErrorDict("Unexpected error during quiz generation"))
    ELSE IF response.kind = "blocked"
    THEN IF response.feedback_ok
         THEN Returned(ErrorDict("Quiz generation blocked by AI"))
         ELSE Returned(ErrorDict("AI response was empty or blocked"))
    ELSE IF response.kind = "text_raises"
    THEN Returned(ErrorDict("Generated quiz JSON structure validation failed"))
    ELSE LET cleaned_text == CleanText(response.text)
         IN  IF ~JsonParses(cleaned_text)
             THEN Returned(ErrorDict("Failed to parse JSON from Gemini response"))
             ELSE LET quiz_data == JsonLoads(cleaned_text, response.value)
                      v == Validate(quiz_data)
                  IN  CASE v = "ok" -> Returned(Validated(quiz_data))
                        [] v = "ValueError" ->
                             Returned(ErrorDict("Generated quiz JSON structure validation failed"))
                        [] OTHER ->
                             Returned(ErrorDict("Unexpected error during quiz generation"))

\* The body of a POST: not sent as JSON, JSON that does not parse, a JSON
\* value that is no object, a JSON object.
Bodies == {"none", "malformed", "list", "dict"}

\* @main.route('/generate_quiz_api'); `response` and `result` are what
\* generate_quiz_json was given and what it returned, when it was called.
GenerateQuizApi(c, body, topic, response) ==
    LET req == [route |-> "generate_quiz_api", client |-> c, calls |-> <<>>,
                status |-> "", method |-> "POST", called |-> FALSE]
        quiz_data == generate_quiz_json(gemini_configured, response)
    IN  /\ IF ~LoggedIn(c)
           THEN last' = [req EXCEPT !.status = "401"]
           ELSE IF body \in {"none", "malformed"}
           THEN last' = [req EXCEPT !.status = "400"]
           ELSE IF body = "list"
           THEN last' = [req EXCEPT !.status = "500"]
           ELSE IF ~Truthy(topic)
           THEN last' = [req EXCEPT !.status = "400"]
           ELSE last' = [route |-> "generate_quiz_api", client |-> c, method |-> "POST",
                         called |-> TRUE,
                         calls |-> IF gemini_configured THEN <<"quiz_model">> ELSE <<>>,
                         response |-> response,
                         result |-> quiz_data,
                         status |-> IF quiz_data.raised THEN "500"
                                    ELSE IF IsErrorResult(quiz_data.value) THEN "500"
                                    ELSE "200"]
        /\ UNCHANGED session
        /\ DbUnchanged
        /\ EnvUnchanged

(***************************************************************************)
(* save_quiz_results.  The numbers of a result: an int, a float n + 1/2    *)
(* (n >= 0), a string, null or a list.                                     *)
(***************************************************************************)
JFloat(n) == [k |-> "float", n |-> n]

DigitOf(ch) == (CHOOSE i \in 1..10 : Digits[i] = ch) - 1
IsDigits(s) == s # <<>> /\ \A i \in 1..Len(s) : \E j \in 1..10 : Digits[j] = s[i]

RECURSIVE ParseNat(_)
ParseNat(s) ==
    IF s = <<>> THEN 0
    ELSE 10 * ParseNat(SubSeq(s, 1, Len(s) - 1)) + DigitOf(s[Len(s)])

\* int(v) raises for None, a list, and a string that is no integer literal.
IntRaises(v) ==
    CASE v.k = "int" -> FALSE
      [] v.k = "float" -> FALSE
      [] v.k = "str" -> ~(IsDigits(v.s) \/ (Len(v.s) > 1 /\ Head(v.s) = "-" /\ IsDigits(Tail(v.s))))
      [] OTHER -> TRUE

\* int(v): a float is truncated, a string is parsed.
PyInt(v) ==
    CASE v.k = "int" -> v.n
      [] v.k = "float" -> v.n
      [] OTHER -> IF Head(v.s) = "-" THEN 0 - ParseNat(Tail(v.s)) ELSE ParseNat(v.s)

Abs(n) == IF n < 0 THEN 0 - n ELSE n

RECURSIVE Gcd(_, _)
Gcd(a, b) == IF b = 0 THEN a ELSE Gcd(b, a % b)

\* A float of the database as the fraction num/den in lowest terms.
Rat(num, den) ==
    LET g == Gcd(Abs(num), den)
    IN  [num |-> num \div g, den |-> den \div g]

\* A percentage by integer division.
Percentage_floor(score, total) ==
    IF total > 0 THEN Rat((score \div total) * 100, 1) ELSE Rat(0, 1)

\* percentage = (score / total) * 100 if total > 0 else 0
Percentage(score, total) == IF total > 0 THEN Rat(score * 100, total) ELSE Rat(0, 1)

\* json.dumps of the detail (small values only); "dq" is the double quote.
JsonDumps(v) ==
    CASE v.k = "str" -> JStr(<<"dq">> \o v.s \o <<"dq">>)
      [] v.k = "list" -> JStr(<<"[", "]">>)
      [] v.k = "null" -> JStr(NullText)
      [] OTHER -> PyStr(v)

\* A String column takes a string as it is and a number as its text; a
\* list cannot be bound and fails the flush.
BindFails(topic) == topic.k \in {"list", "dict"}

QuizHistory(user_id, topic, score, total, percentage, detail) ==
    [user_id |-> user_id, topic |-> PyStr(topic), score |-> score,
     total_questions |-> total, percentage |-> percentage,
     results_detail |-> JsonDumps(detail)]

\* @main.route('/save_quiz_results')
SaveQuizResults(c, body, topic, score, total, detail, commit_ok) ==
    LET user_id == session[c].user_id
        req == [route |-> "save_quiz_results", client |-> c, calls |-> <<>>,
                status |-> "", method |-> "POST", body |-> body, topic |-> topic,
                score |-> score, total |-> total, detail |-> detail,
                commit_ok |-> commit_ok, rolled_back |-> FALSE]
    IN  /\ IF ~LoggedIn(c)
           THEN /\ last' = [req EXCEPT !.status = "302:login"]
                /\ UNCHANGED history
           ELSE IF body \in {"none", "malformed"}
           THEN /\ last' = [req EXCEPT !.status = "400"]
                /\ UNCHANGED history
           ELSE IF body = "list"
           THEN /\ last' = [req EXCEPT !.status = "500"]
                /\ UNCHANGED history
           ELSE IF \E v \in {topic, score, total, detail} : IsNone(v)
           THEN /\ last' = [req EXCEPT !.status = "400"]
                /\ UNCHANGED history
           ELSE IF IntRaises(score) \/ IntRaises(total) \/ BindFails(topic) \/ ~commit_ok
           THEN /\ last' = [req EXCEPT !.status = "500", !.rolled_back = TRUE]
                /\ UNCHANGED history
           ELSE /\ Len(history) < MaxHistory
                /\ history' = Append(history,
                                 QuizHistory(user_id, topic, PyInt(score), PyInt(total),
                                             Percentage(PyInt(score), PyInt(total)), detail))
                /\ last' = [req EXCEPT !.status = "200"]
        /\ UNCHANGED <<users, session, completed>>
        /\ EnvUnchanged

Reverse(seq) == [i \in 1..Len(seq) |-> seq[Len(seq) + 1 - i]]

\* A query that forgets the filter: every record, newest first.
HistoryOf_all(user_id) == Reverse(history)

\* QuizHistory.query.filter_by(user_id=user_id).order_by(date_taken.desc())
HistoryOf(user_id) ==
    LET Mine(h) == h.user_id = user_id
    IN  Reverse(SelectSeq(history, Mine))

\* @main.route('/quiz-history')
QuizHistoryPage(c) ==
    /\ last' = IF LoggedIn(c)
               THEN [route |-> "quiz_history", client |-> c, calls |-> <<>>,
                     status |-> "200", method |-> "GET",
                     history |-> HistoryOf(session[c].user_id)]
               ELSE Answer("quiz_history", c, "302:login")
    /\ UNCHANGED session
    /\ DbUnchanged
    /\ EnvUnchanged

(***************************************************************************)
(* The catalog: three courses, and the course of each video.  No route     *)
(* changes it.  VideoCourse is the catalog of most runs: videos 1 and 2    *)
(* belong to course 1, video 3 to course 2, and course 3 has no video.     *)
(***************************************************************************)
Courses == {1, 2, 3}
VideoCourse == <<1, 1, 2>>
Videos == DOMAIN video_course
VideosOf(course) == {v \in Videos : video_course[v] = course}

\* get_chat_session(user_id): the chat_history_<id> keys of the session after
\* it.  rebuild_ok and start_ok say whether start_chat succeeds on the stored
\* history and on a fresh one.
get_chat_session(keys, user_id, rebuild_ok, start_ok) ==
    IF ~chat_model THEN keys
    ELSE IF user_id \notin keys
    THEN (IF start_ok THEN keys \cup {user_id} ELSE keys)
    ELSE IF rebuild_ok THEN keys
    ELSE IF start_ok THEN keys
    ELSE keys \ {user_id}

(***************************************************************************)
(* int((completed_count / total_videos) * 100) in Python's floats (IEEE    *)
(* doubles, 53 bits, round to nearest, ties to even).  A number of more    *)
(* than 31 bits is a sequence of limbs of 13 bits, the highest first.      *)
(***************************************************************************)
Base == 2^13

\* limbs \div dvs and limbs % dvs, for a divisor below Base; r is the
\* remainder carried in from the limbs above.
RECURSIVE DivLimbs(_, _, _)
DivLimbs(limbs, dvs, r) ==
    IF limbs = <<>> THEN [q |-> <<>>, r |-> r]
    ELSE LET cur == r * Base + Head(limbs)
             rest == DivLimbs(Tail(limbs), dvs, cur % dvs)
         IN  [q |-> <<cur \div dvs>> \o rest.q, r |-> rest.r]

\* limbs * m + carry, in as many limbs (the numbers here leave no carry).
RECURSIVE MulAddLimbs(_, _, _)
MulAddLimbs(limbs, m, carry) ==
    IF limbs = <<>> THEN <<>>
    ELSE LET cur == limbs[Len(limbs)] * m + carry
         IN  MulAddLimbs(SubSeq(limbs, 1, Len(limbs) - 1), m, cur \div Base) \o <<cur % Base>>

\* The quotient qr.q of a division by dvs with remainder qr.r, rounded to the
\* nearest integer, a tie to the even one.
RoundHalfEven(qr, dvs) ==
    IF 2 * qr.r > dvs \/ (2 * qr.r = dvs /\ qr.q[Len(qr.q)] % 2 = 1)
    THEN MulAddLimbs(qr.q, 1, 1)
    ELSE qr.q

RECURSIVE LimbsValue(_)
LimbsValue(limbs) ==
    IF limbs = <<>> THEN 0
    ELSE LimbsValue(SubSeq(limbs, 1, Len(limbs) - 1)) * Base + limbs[Len(limbs)]

\* The least k with c * 2^k >= t: c/t lies in [2^-k, 2^(1-k)).
RECURSIVE BinaryScale(_, _, _)
BinaryScale(c, t, k) == IF c * 2^k >= t THEN k ELSE BinaryScale(c, t, k + 1)

\* The double c / t for 0 < c <= t: the 53-bit integer m with c/t = m * 2^-(52+k).
FloatDiv(c, t) ==
    LET k == BinaryScale(c, t, 0)
    IN  [m |-> RoundHalfEven(DivLimbs(<<c * 2^k, 0, 0, 0, 0>>, t, 0), t), k |-> k]

\* int(x * 100) for the double x = x.m * 2^-(52+x.k): the product has 59 or 60
\* bits and is rounded to 53 of them before int() cuts the fraction off.
IntTimes100(x) ==
    LET product == MulAddLimbs(x.m, 100, 0)
        drop == IF product[1] >= 2^7 THEN 7 ELSE 6
        rounded == RoundHalfEven(DivLimbs(product, 2^drop, 0), 2^drop)
        shift == 52 + x.k - drop
        kept == SubSeq(rounded, 1, Len(rounded) - (shift \div 13))
    IN  LimbsValue(DivLimbs(kept, 2^(shift % 13), 0).q)

\* percentage = int((completed_count / total_videos) * 100)
IntPercentage(completed_count, total_videos) ==
    IF completed_count = 0 THEN 0
    ELSE IntTimes100(FloatDiv(completed_count, total_videos))

\* The progress of one course on the dashboard.
Progress(user_id, course) ==
    LET total_videos == Cardinality(VideosOf(course))
        completed_count == Cardinality({v \in VideosOf(course) : <<user_id, v>> \in completed})
        percentage == IntPercentage(completed_count, total_videos)
    IN  IF total_videos > 0
        THEN [percentage |-> percentage,
              status |-> IF percentage = 100 THEN "Completed"
                         ELSE IF percentage > 0 THEN "In Progress"
                         ELSE "Not Started"]
        ELSE [percentage |-> 0, status |-> "No Content"]

\* @main.route('/dashboard')
Dashboard(c, rebuild_ok, start_ok) ==
    LET user_id == session[c].user_id
    IN  /\ IF ~LoggedIn(c)
           THEN /\ last' = Answer("dashboard", c, "302:login")
                /\ UNCHANGED session
           ELSE /\ session' = [session EXCEPT ![c].chat_history =
                                   get_chat_session(@, user_id, rebuild_ok, start_ok)]
                /\ last' = [route |-> "dashboard", client |-> c, calls |-> <<>>,
                            status |-> "200", method |-> "GET",
                            progress_data |-> [course \in Courses |-> Progress(user_id, course)]]
        /\ DbUnchanged
        /\ EnvUnchanged

\* @main.route('/courses'): no login check, read only.
CoursesList(c) ==
    /\ last' = Answer("courses", c, "200")
    /\ UNCHANGED session
    /\ DbUnchanged
    /\ EnvUnchanged

\* @main.route('/course/<id>'): no login check, read only.
CourseDetail(c, course_id) ==
    /\ last' = Answer("course_detail", c, IF course_id \in Courses THEN "200" ELSE "404")
    /\ UNCHANGED session
    /\ DbUnchanged
    /\ EnvUnchanged

\* @main.route('/video/<id>')
VideoDetail(c, video_id) ==
    /\ last' = IF ~LoggedIn(c) THEN Answer("video_detail", c, "302:login")
               ELSE IF video_id \notin Videos THEN Answer("video_detail", c, "404")
               ELSE [route |-> "video_detail", client |-> c, calls |-> <<>>,
                     status |-> "200", method |-> "GET",
                     is_completed |-> <<session[c].user_id, video_id>> \in completed]
    /\ UNCHANGED session
    /\ DbUnchanged
    /\ EnvUnchanged

\* A complete_video that marks the video for every user.
CompleteVideo_all(c, video_id, commit_ok) ==
    LET req == [route |-> "complete_video", client |-> c, calls |-> <<>>,
                status |-> "", method |-> "POST", video_id |-> video_id,
                commit_ok |-> commit_ok]
    IN  /\ IF ~LoggedIn(c)
           THEN /\ last' = [req EXCEPT !.status = "302:login"]
                /\ UNCHANGED completed
           ELSE IF video_id \notin Videos
           THEN /\ last' = [req EXCEPT !.status = "404"]
                /\ UNCHANGED completed
           ELSE /\ completed' = completed \cup {<<u, video_id>> : u \in DOMAIN users}
                /\ last' = [req EXCEPT !.status = "302:course_detail"]
        /\ UNCHANGED <<users, session, history>>
        /\ EnvUnchanged

\* @main.route('/complete_video/<id>')
CompleteVideo(c, video_id, commit_ok) ==
    LET req == [route |-> "complete_video", client |-> c, calls |-> <<>>,
                status |-> "", method |-> "POST", video_id |-> video_id,
                commit_ok |-> commit_ok]
        pair == <<session[c].user_id, video_id>>
    IN  /\ IF ~LoggedIn(c)
           THEN /\ last' = [req EXCEPT !.status = "302:login"]
                /\ UNCHANGED completed
           ELSE IF video_id \notin Videos
           THEN /\ last' = [req EXCEPT !.status = "404"]
                /\ UNCHANGED completed
           ELSE IF pair \in completed
           THEN /\ last' = [req EXCEPT !.status = "302:course_detail"]
                /\ UNCHANGED completed
           ELSE IF ~commit_ok
           THEN /\ last' = [req EXCEPT !.status = "500"]
                /\ UNCHANGED completed
           ELSE /\ completed' = completed \cup {pair}
                /\ last' = [req EXCEPT !.status = "302:course_detail"]
        /\ UNCHANGED <<users, session, history>>
        /\ EnvUnchanged

\* generate_complete_notes: "success", or "error" (not configured, no parts,
\* or any exception).
generate_complete_notes(configured, response) ==
    IF ~configured THEN "error"
    ELSE IF response = "text" THEN "success"
    ELSE "error"

NotesResponses == {"text", "blocked", "raise"}

\* document_generator.create_and_save_document: a path, a string that
\* starts with "Error:", or an exception.
DocResults == {"path", "Error:", "raise"}

\* @main.route('/generate_notes_api'); get_json is inside the try.  `ai` and
\* `doc` are what generate_complete_notes and the document generator gave,
\* "" when they were not called.
GenerateNotesApi(c, body, topic, response, doc) ==
    LET req == [route |-> "generate_notes_api", client |-> c, calls |-> <<>>,
                status |-> "", method |-> "POST", body |-> body, topic |-> topic,
                ai |-> "", doc |-> ""]
        ai_result == generate_complete_notes(gemini_configured, response)
        ai_calls == IF gemini_configured THEN <<"notes_model">> ELSE <<>>
    IN  /\ IF ~LoggedIn(c)
           THEN last' = [req EXCEPT !.status = "401"]
           ELSE IF body = "none"
           THEN last' = [req EXCEPT !.status = "400"]
           ELSE IF body \in {"malformed", "list"}
           THEN last' = [req EXCEPT !.status = "500"]
           ELSE IF ~Truthy(topic)
           THEN last' = [req EXCEPT !.status = "400"]
           ELSE IF ai_result # "success"
           THEN last' = [req EXCEPT !.status = "500", !.calls = ai_calls, !.ai = ai_result]
           ELSE last' = [req EXCEPT !.calls = Append(ai_calls, "document_generator"),
                                    !.ai = ai_result, !.doc = doc,
                                    !.status = IF doc = "path" THEN "200" ELSE "500"]
        /\ UNCHANGED session
        /\ DbUnchanged
        /\ EnvUnchanged

\* What a generator of get_answer does: it returns a value, returns nothing
\* (None or an empty list), or raises.
Outcomes == {"value", "nothing", "raise"}

\* A get_answer without the try/except around its generators: the first
\* exception ends the request.
GetAnswer_stop(c, query, text, audio, video, image) ==
    LET req == [route |-> "get_answer", client |-> c, calls |-> <<>>,
                status |-> "", method |-> "POST", query |-> query]
        order == <<"text", "audio", "video", "image">>
        outcome == <<text, audio, video, image>>
        raised == {n \in 1..4 : outcome[n] = "raise"}
        first == CHOOSE n \in raised : \A m \in raised : n <= m
    IN  /\ IF ~LoggedIn(c)
           THEN last' = [req EXCEPT !.status = "302:login"]
           ELSE IF ~Truthy(query)
           THEN last' = [req EXCEPT !.status = "302:tutor_index"]
           ELSE last' = [route |-> "get_answer", client |-> c, method |-> "POST",
                         query |-> query,
                         status |-> IF raised = {} THEN "200" ELSE "500",
                         calls |-> IF raised = {} THEN order ELSE SubSeq(order, 1, first),
                         text |-> text, audio |-> audio, video |-> video, image |-> image,
                         text_answer |-> "answer",
                         audio_text |-> "answer",
                         audio_url |-> IF audio = "value" THEN "url" ELSE "None",
                         top_videos |-> IF video = "value" THEN "videos" ELSE "[]",
                         top_images |-> IF image = "value" THEN "images" ELSE "[]"]
        /\ UNCHANGED session
        /\ DbUnchanged
        /\ EnvUnchanged

\* @main.route('/get_answer'): each generator in its own try/except, in the
\* order text, audio (of the text_answer just set), videos, images; `text`,
\* `audio`, `video` and `image` record what each generator did.
GetAnswer(c, query, text, audio, video, image) ==
    LET req == [route |-> "get_answer", client |-> c, calls |-> <<>>,
                status |-> "", method |-> "POST", query |-> query]
        text_answer == IF text = "raise" THEN "apology" ELSE "answer"
    IN  /\ IF ~LoggedIn(c)
           THEN last' = [req EXCEPT !.status = "302:login"]
           ELSE IF ~Truthy(query)
           THEN last' = [req EXCEPT !.status = "302:tutor_index"]
           ELSE last' = [route |-> "get_answer", client |-> c, method |-> "POST",
                         query |-> query, status |-> "200",
                         calls |-> <<"text", "audio", "video", "image">>,
                         text |-> text, audio |-> audio, video |-> video, image |-> image,
                         text_answer |-> text_answer,
                         audio_text |-> text_answer,
                         audio_url |-> IF audio = "value" THEN "url" ELSE "None",
                         top_videos |-> IF video = "value" THEN "videos" ELSE "[]",
                         top_images |-> IF image = "value" THEN "images" ELSE "[]"]
        /\ UNCHANGED session
        /\ DbUnchanged
        /\ EnvUnchanged

(***************************************************************************)
(* The quizzes a model response may carry.                                 *)
(***************************************************************************)
S(ch) == JStr(<<ch>>)

GoodOptions == JDict([A |-> S("a"), B |-> S("b"), C |-> S("c"), D |-> S("d")])

OptionsSet ==
    { GoodOptions,
      JDict([A |-> JInt(5), B |-> S("b"), C |-> S("c"), D |-> S("d")]),
      JDict([A |-> S("a"), B |-> S("b"), C |-> JList(<<>>), D |-> JNull]),
      JDict([A |-> S("a"), B |-> S("b"), C |-> S("c")]),
      JDict([A |-> S("a"), B |-> S("b"), C |-> S("c"), E |-> S("e")]),
      JDict([A |-> S("a"), B |-> S("b"), C |-> S("c"), D |-> S("d"), E |-> S("e")]),
      JStr(ABCD) }

Answers ==
    { S("A"), S("D"), S("E"), JStr(<<>>), JStr(<<"A", "B">>), JStr(ABCD),
      JStr(<<"A", "C">>), JInt(1), JNull }

Q(options, answer) == JDict([question |-> S("q"), options |-> options, answer |-> answer])

Questions ==
    {Q(o, S("A")) : o \in OptionsSet}
    \cup {Q(GoodOptions, a) : a \in Answers}
    \cup { JDict([question |-> S("q"), options |-> GoodOptions]),
           JDict([question |-> S("q"), answer |-> S("A")]),
           JDict([question |-> S("q"), options |-> GoodOptions, answer |-> S("B"),
                  explanation |-> S("x")]),
           S("q") }

SeqsUpTo(set, n) == UNION {[1..m -> set] : m \in 0..n}

QuizRoots ==
    {JDict([questions |-> JList(l)]) : l \in SeqsUpTo(Questions, MaxQuestions)}
    \cup { JList(<<>>),
           JInt(1),
           JDict([quiz |-> JList(<<Q(GoodOptions, S("A"))>>)]),
           JDict([questions |-> JDict([q1 |-> Q(GoodOptions, S("A"))])]),
           JDict([questions |-> JList(<<Q(GoodOptions, S("A"))>>), error |-> S("x")]) }

Fence == <<"bq", "bq", "bq">>

\* The texts around one JSON value: bare, padded, fenced, fenced without the
\* word json, after a sentence, and cut off.
TextsOf(body) ==
    { body,
      <<" ">> \o body \o <<" ">>,
      Fence \o <<"j", "s", "o", "n", " ">> \o body \o <<" ">> \o Fence,
      Fence \o <<" ">> \o body \o <<" ">> \o Fence,
      <<"x", " ">> \o body,
      body \o <<"x">> }

SampleQuiz == JDict([questions |-> JList(<<Q(GoodOptions, S("A"))>>)])

QuizResponses ==
    { [kind |-> "raise"],
      [kind |-> "blocked", feedback_ok |-> TRUE],
      [kind |-> "blocked", feedback_ok |-> FALSE],
      [kind |-> "text_raises"] }
    \cup {[kind |-> "text", text |-> <<"OBJ">>, value |-> v] : v \in QuizRoots}
    \cup {[kind |-> "text", text |-> t, value |-> SampleQuiz] :
              t \in TextsOf(<<"OBJ">>) \cup TextsOf(NullText) \cup {<<>>, <<"x">>}}

FewQuizResponses ==
    { [kind |-> "raise"],
      [kind |-> "text", text |-> <<"OBJ">>, value |-> SampleQuiz],
      [kind |-> "text", text |-> <<"x">>, value |-> SampleQuiz] }

(***************************************************************************)
(* The state after create_app(): empty tables, empty sessions.  Whether    *)
(* the Gemini key was configured and whether the chat model could be made  *)
(* is fixed when the modules are imported.                                 *)
(***************************************************************************)
Init ==
    /\ users = <<>>
    /\ session = [c \in Clients |-> EmptySession]
    /\ history = <<>>
    /\ completed = {}
    /\ video_course = VideoCourse
    /\ gemini_configured \in BOOLEAN
    /\ chat_model \in BOOLEAN
    /\ model_reply = [kind |-> "raise"]
    /\ last = [route |-> "start", client |-> "c1", status |-> "", calls |-> <<>>,
               method |-> "GET"]

(***************************************************************************)
(* The quiz generator behind its route: one user, and a run for every      *)
(* reply of the model.                                                     *)
(***************************************************************************)
InitQuiz ==
    /\ users = <<>>
    /\ session = [c \in Clients |-> EmptySession]
    /\ history = <<>>
    /\ completed = {}
    /\ video_course = VideoCourse
    /\ gemini_configured \in BOOLEAN
    /\ chat_model = TRUE
    /\ model_reply \in QuizResponses
    /\ last = [route |-> "start", client |-> "c1", status |-> "", calls |-> <<>>,
               method |-> "GET"]

NextQuiz ==
    \/ Register("c1", "POST", 1, 1, 1, 1, 1, 1, TRUE)
    \/ Login("c1", "POST", 1, 1)
    \/ \E body \in Bodies, topic \in {NoneV, 1} :
          GenerateQuizApi("c1", body, topic, model_reply)

SpecQuiz == InitQuiz /\ [][NextQuiz]_vars

(***************************************************************************)
(* Claims about generate_quiz_json and generate_quiz_api (SpecQuiz).       *)
(***************************************************************************)
QuizCalled == last.route = "generate_quiz_api" /\ last.called

HasErrorKey(v) == v.k = "dict" /\ "error" \in DOMAIN v.d

QuizReturned == QuizCalled /\ ~last.result.raised /\ ~HasErrorKey(last.result.value)

OptionLetters == {"A", "B", "C", "D"}

QuestionWellFormed(q) ==
    /\ q.k = "dict"
    /\ {"question", "options", "answer"} \subseteq DOMAIN q.d
    /\ q.d.options.k = "dict"
    /\ DOMAIN q.d.options.d = OptionLetters
    /\ \A key \in OptionLetters : q.d.options.d[key].k = "str"

QuizWellFormed(v) ==
    /\ v.k = "dict"
    /\ "questions" \in DOMAIN v.d
    /\ v.d.questions.k = "list"
    /\ Len(v.d.questions.l) > 0
    /\ \A i \in 1..Len(v.d.questions.l) : QuestionWellFormed(v.d.questions.l[i])

\* C6: every value generate_quiz_json returns without an 'error' key is a dict
\* whose 'questions' is a non-empty list of dicts with the keys question,
\* options and answer, the options being a dict with exactly the keys A, B, C
\* and D and string values.
C6_QuizWellFormed == QuizReturned => QuizWellFormed(last.result.value)

\* C6 witness: a quiz was returned whose reply carried an option that was not
\* a string.
C6_Witness ==
    /\ QuizReturned
    /\ last.response.kind = "text"
    /\ \E i \in 1..Len(last.response.value.d.questions.l) :
          \E key \in OptionLetters :
             last.response.value.d.questions.l[i].d.options.d[key].k # "str"

\* C7: in every quiz generate_quiz_json returns without an 'error' key, each
\* question's answer is exactly one of the letters A, B, C, D (so a reply with
\* any other answer yields an error result).
C7_AnswerIsOneLetter ==
    QuizReturned =>
        \A i \in 1..Len(last.result.value.d.questions.l) :
            LET answer == last.result.value.d.questions.l[i].d.answer
            IN  answer.k = "str" /\ answer.s \in {<<"A">>, <<"B">>, <<"C">>, <<"D">>}

\* The reply is one of the failures the function names.
QuizFailure ==
    \/ ~gemini_configured
    \/ last.response.kind \in {"raise", "blocked", "text_raises"}
    \/ ~JsonParses(CleanText(last.response.text))
    \/ Validate(JsonLoads(CleanText(last.response.text), last.response.value)) # "ok"

\* C8: generate_quiz_json never raises; an unconfigured key, an empty or
\* blocked reply, unparseable JSON, a failed validation and an unexpected
\* exception each give a dict with an 'error' key; generate_quiz_api answers
\* 500 for every such result and 200, with the quiz, only for a validated one.
C8_QuizErrors ==
    QuizCalled =>
        /\ ~last.result.raised
        /\ QuizFailure => HasErrorKey(last.result.value)
        /\ HasErrorKey(last.result.value) => last.status = "500"
        /\ last.status \in {"200", "500"}
        /\ last.status = "200" => ~QuizFailure /\ QuizWellFormed(last.result.value)

\* C8 witness: a reply whose answer is not a string (the membership test
\* raises TypeError) was answered with an error and 500.
C8_Witness ==
    /\ QuizCalled
    /\ gemini_configured
    /\ last.response.kind = "text"
    /\ JsonParses(CleanText(last.response.text))
    /\ Validate(JsonLoads(CleanText(last.response.text), last.response.value)) = "TypeError"
    /\ last.status = "500"

\* C7 witness: a quiz was returned whose first answer is the two letters AB.
C7_Witness ==
    /\ QuizReturned
    /\ last.status = "200"
    /\ last.result.value.d.questions.l[1].d.answer = [k |-> "str", s |-> <<"A", "B">>]

(***************************************************************************)
(* Saving quiz results: two users, one browser, and the request bodies     *)
(* below.                                                                  *)
(***************************************************************************)
TopicT == JStr(<<"t">>)
DetailD == JList(<<>>)

SaveData(topic, score, total, detail) ==
    [topic |-> topic, score |-> score, total |-> total, detail |-> detail]

SaveDatas ==
    { SaveData(TopicT, JInt(1), JInt(3), DetailD),
      SaveData(TopicT, JInt(3), JInt(3), DetailD),
      SaveData(TopicT, JInt(-1), JInt(3), DetailD),
      SaveData(TopicT, JInt(1), JInt(0), DetailD),
      SaveData(TopicT, JInt(1), JInt(-1), DetailD),
      SaveData(TopicT, JStr(<<"2">>), JStr(<<"3">>), DetailD),
      SaveData(TopicT, JFloat(1), JInt(3), DetailD),
      SaveData(TopicT, JStr(<<"x">>), JInt(3), DetailD),
      SaveData(TopicT, JList(<<>>), JInt(3), DetailD),
      SaveData(TopicT, JInt(1), JStr(<<"1", ".", "5">>), DetailD),
      SaveData(TopicT, JNull, JInt(3), DetailD),
      SaveData(TopicT, JInt(1), JNull, DetailD),
      SaveData(JNull, JInt(1), JInt(3), DetailD),
      SaveData(TopicT, JInt(1), JInt(3), JNull),
      SaveData(JInt(5), JInt(1), JInt(3), DetailD),
      SaveData(JList(<<>>), JInt(1), JInt(3), DetailD),
      SaveData(TopicT, JInt(1), JInt(3), JStr(<<"d">>)) }

\* The requests: every data with a commit that works, one with a commit that
\* fails, and one for each body that is no JSON object.
SaveRequests ==
    {[body |-> "dict", data |-> data, commit_ok |-> TRUE] : data \in SaveDatas}
    \cup {[body |-> "dict", data |-> SaveData(TopicT, JInt(1), JInt(3), DetailD),
           commit_ok |-> FALSE]}
    \cup {[body |-> body, data |-> SaveData(TopicT, JInt(1), JInt(3), DetailD),
           commit_ok |-> TRUE] : body \in Bodies \ {"dict"}}

InitSave ==
    /\ users = <<>>
    /\ session = [c \in Clients |-> EmptySession]
    /\ history = <<>>
    /\ completed = {}
    /\ video_course = VideoCourse
    /\ gemini_configured = TRUE
    /\ chat_model = TRUE
    /\ model_reply = [kind |-> "raise"]
    /\ last = [route |-> "start", client |-> "c1", status |-> "", calls |-> <<>>,
               method |-> "GET"]

NextSave ==
    \/ \E email \in Emails : Register("c1", "POST", email, 1, 1, 1, 1, 1, TRUE)
    \/ \E email \in Emails : Login("c1", "POST", email, 1)
    \/ Logout("c1")
    \/ \E r \in SaveRequests :
          SaveQuizResults("c1", r.body, r.data.topic, r.data.score, r.data.total,
                          r.data.detail, r.commit_ok)
    \/ QuizHistoryPage("c1")

SpecSave == InitSave /\ [][NextSave]_vars

(***************************************************************************)
(* Claims about save_quiz_results (SpecSave).                              *)
(***************************************************************************)
SaveAnswered == last'.route = "save_quiz_results" /\ LoggedIn(last'.client)

Present(v) == v.k # "null"

\* A score or total that int() accepts: a number, or the text of an integer.
IntConvertible(v) ==
    \/ v.k \in {"int", "float"}
    \/ /\ v.k = "str"
       /\ LET t == IF v.s # <<>> /\ Head(v.s) = "-" THEN Tail(v.s) ELSE v.s
          IN  t # <<>> /\ \A i \in 1..Len(t) : t[i] \in {"0", "1", "2", "3", "4", "5", "6", "7", "8", "9"}

SaveComplete ==
    /\ SaveAnswered
    /\ last'.body = "dict"
    /\ \A v \in {last'.topic, last'.score, last'.total, last'.detail} : Present(v)
    /\ IntConvertible(last'.score)
    /\ IntConvertible(last'.total)

\* The record holds the converted integers and their percentage.
HoldsNumbers(rec, req) ==
    /\ rec.score = PyInt(req.score)
    /\ rec.total_questions = PyInt(req.total)
    /\ IF PyInt(req.total) > 0
       THEN rec.percentage.num * PyInt(req.total) = 100 * PyInt(req.score) * rec.percentage.den
       ELSE rec.percentage.num = 0

C10_SaveErrors ==
    [][SaveAnswered =>
          /\ last'.status \in {"400", "500"} => history' = history
          /\ last'.body = "none" => last'.status = "400"
          /\ ( /\ last'.body = "dict"
               /\ \E v \in {last'.topic, last'.score, last'.total, last'.detail} : ~Present(v) )
             => last'.status = "400" /\ ~last'.rolled_back
          /\ ( /\ last'.body = "dict"
               /\ \A v \in {last'.topic, last'.score, last'.total, last'.detail} : Present(v)
               /\ \/ ~IntConvertible(last'.score)
                  \/ ~IntConvertible(last'.total)
                  \/ ~last'.commit_ok )
             => last'.status = "500" /\ last'.rolled_back]_vars

\* C10 witness: with a record in the table, a request whose score is no
\* integer was answered 500 after a rollback.
C10_Witness ==
    /\ last.route = "save_quiz_results"
    /\ last.status = "500"
    /\ last.rolled_back
    /\ last.score.k = "str"
    /\ history # <<>>

(***************************************************************************)
(* Accounts: registering, logging in and out, changing the password, from  *)
(* one browser.  A form is complete, or has one field missing or empty.    *)
(***************************************************************************)
RegisterForm(email, first_name, last_name, password, commit_ok) ==
    [email |-> email, first_name |-> first_name, last_name |-> last_name,
     password |-> password, commit_ok |-> commit_ok]

RegisterForms ==
    {RegisterForm(e, 1, 1, p, TRUE) : e \in Emails, p \in Passwords}
    \cup {RegisterForm(e, 1, 1, p, TRUE) : e \in {NoneV}, p \in Passwords}
    \cup {RegisterForm(e, 1, 1, p, TRUE) : e \in Emails, p \in {NoneV, EmptyStr}}
    \cup {RegisterForm(e, NoneV, 1, 1, TRUE) : e \in Emails}
    \cup {RegisterForm(e, 1, NoneV, 1, TRUE) : e \in Emails}
    \cup {RegisterForm(e, 1, 1, 1, FALSE) : e \in Emails}

PasswordForm(current, new, confirm, commit_ok) ==
    [current |-> current, new |-> new, confirm |-> confirm, commit_ok |-> commit_ok]

PasswordForms ==
    {PasswordForm(cur, new, new, TRUE) :
        cur \in Passwords \cup {NoneV}, new \in Passwords \cup {NoneV, EmptyStr}}
    \cup {PasswordForm(cur, 1, 2, TRUE) : cur \in Passwords}
    \cup {PasswordForm(cur, 2, 2, FALSE) : cur \in Passwords}

InitAuth ==
    /\ users = <<>>
    /\ session = [c \in Clients |-> EmptySession]
    /\ history = <<>>
    /\ completed = {}
    /\ video_course = VideoCourse
    /\ gemini_configured = TRUE
    /\ chat_model = TRUE
    /\ model_reply = [kind |-> "raise"]
    /\ last = [route |-> "start", client |-> "c1", status |-> "", calls |-> <<>>,
               method |-> "GET"]

NextAuth ==
    \/ \E f \in RegisterForms, salt \in Salts :
          Register("c1", "POST", f.email, f.first_name, f.last_name, 1, f.password,
                   salt, f.commit_ok)
    \/ \E method \in {"GET", "POST"}, email \in Emails \cup {NoneV},
          password \in Passwords \cup {NoneV, EmptyStr} :
          Login("c1", method, email, password)
    \/ Logout("c1")
    \/ \E f \in PasswordForms, salt \in Salts :
          ChangePassword("c1", f.current, f.new, f.confirm, salt, f.commit_ok)

SpecAuth == InitAuth /\ [][NextAuth]_vars

(***************************************************************************)
(* Claims about register and login (SpecAuth).                             *)
(***************************************************************************)
\* The stored hash of user record u is a hash of the string p.
PasswordMatches(u, p) ==
    /\ p # NoneV
    /\ u.password_hash.method = "hashed"
    /\ u.password_hash.digest = Digest(u.password_hash.salt, p)

Registered(email) == \E i \in DOMAIN users : users[i].email = email

LoginPost(c) ==
    /\ last'.route = "login"
    /\ last'.method = "POST"
    /\ last'.client = c
    /\ session[c].user_id = NoUser

\* C1: login sets session['user_id'] to u only when a user record with the
\* submitted email exists and the submitted password checks against its
\* stored hash; after a failed login POST the session has no 'user_id'.
C1_LoginChecksPassword ==
    [][\A c \in Clients :
          /\ (session'[c].user_id # NoUser /\ session'[c].user_id # session[c].user_id)
                => /\ LoginPost(c)
                   /\ session'[c].user_id \in DOMAIN users
                   /\ users[session'[c].user_id].email = last'.email
                   /\ PasswordMatches(users[session'[c].user_id], last'.password)
          /\ ( /\ LoginPost(c)
               /\ \A i \in DOMAIN users :
                     users[i].email = last'.email => ~PasswordMatches(users[i], last'.password) )
                => session'[c].user_id = NoUser]_vars

\* C1 witness: a login POST with a registered email and a wrong password was
\* refused.
C1_Witness ==
    /\ last.route = "login"
    /\ last.status = "200:invalid"
    /\ Registered(last.email)
    /\ session[last.client].user_id = NoUser

EmailsUnique ==
    \A i, j \in DOMAIN users : users[i].email = users[j].email => i = j

RegisterPost == last'.route = "register" /\ last'.method = "POST"

AddsOneUser ==
    /\ Len(users') = Len(users) + 1
    /\ SubSeq(users', 1, Len(users)) = users
    /\ users'[Len(users')].email = last'.email

C3_HashRoundTrip ==
    [][/\ (RegisterPost /\ Len(users') > Len(users)) =>
             LET u == users'[Len(users')]
                 p == last'.password
             IN  /\ Truthy(p)
                 /\ \E salt \in Salts :
                       u.password_hash =
                          [method |-> "hashed", salt |-> salt, digest |-> Digest(salt, p)]
                 /\ u.password_hash # [method |-> "plain", salt |-> 0, digest |-> p]
                 /\ PasswordMatches(u, p)
       /\ \A c \in Clients :
             (LoginPost(c) /\ Registered(last'.email) /\ last'.password # NoneV) =>
                LET i == CHOOSE i \in DOMAIN users : users[i].email = last'.email
                IN  IF PasswordMatches(users[i], last'.password)
                    THEN session'[c].user_id = i /\ last'.status = "302:welcome"
                    ELSE session'[c].user_id = NoUser /\ last'.status = "200:invalid"]_vars

\* C3 witness: a user who registered logged in with the password.
C3_Witness ==
    /\ last.route = "login"
    /\ last.status = "302:welcome"
    /\ session[last.client].user_id \in DOMAIN users
    /\ PasswordMatches(users[session[last.client].user_id], last.password)

(***************************************************************************)
(* The whole application: every route, from one browser, over a small set  *)
(* of requests for each: a usual request, and one for each way it can go   *)
(* wrong.                                                                  *)
(***************************************************************************)
ChatRequests ==
    {<<TRUE, 1, outcome>> : outcome \in {"text", "empty", "raise"}}
    \cup {<<FALSE, 1, "text">>, <<TRUE, NoneV, "text">>}

QuizRequests ==
    {<<"dict", 1, response>> : response \in FewQuizResponses}
    \cup {<<body, 1, [kind |-> "raise"]>> : body \in Bodies}
    \cup {<<"dict", NoneV, [kind |-> "raise"]>>}

FewSaveRequests ==
    {r \in SaveRequests : r.data.score \in {JInt(1), JStr(<<"x">>), JNull}
                            /\ r.data.total = JInt(3)
                            /\ r.data.topic = TopicT
                            /\ r.data.detail = DetailD}

NotesRequests ==
    {<<body, 1, "text", "path">> : body \in Bodies}
    \cup {<<"dict", NoneV, "text", "path">>}
    \cup {<<"dict", 1, response, "path">> : response \in NotesResponses}
    \cup {<<"dict", 1, "text", doc>> : doc \in DocResults}

Next ==
    \E c \in {"c1"} :
       \/ Home(c)
       \/ \E route \in ProtectedPages : ProtectedPage(c, route)
       \/ \E query \in {NoneV, EmptyStr, 1}, text \in {"value", "raise"}, audio \in {"value", "raise"} :
             GetAnswer(c, query, text, audio, "value", "nothing")
       \/ \E method \in {"GET", "POST"}, email \in Emails, commit_ok \in BOOLEAN :
             Register(c, method, email, 1, 1, 1, 1, 1, commit_ok)
       \/ \E method \in {"GET", "POST"}, email \in Emails, password \in Passwords :
             Login(c, method, email, password)
       \/ Logout(c)
       \/ \E method \in {"GET", "POST"}, first_name \in {NoneV, 1}, pic \in {"none", "disallowed"} :
             Profile(c, method, first_name, 1, 1, pic, TRUE, TRUE)
       \/ \E current \in Passwords, confirm \in Passwords :
             ChangePassword(c, current, 1, confirm, 1, TRUE)
       \/ \E r \in ChatRequests : Chat(c, r[1], r[2], r[3])
       \/ \E r \in QuizRequests : GenerateQuizApi(c, r[1], r[2], r[3])
       \/ \E r \in FewSaveRequests :
             SaveQuizResults(c, r.body, r.data.topic, r.data.score, r.data.total,
                             r.data.detail, r.commit_ok)
       \/ QuizHistoryPage(c)
       \/ \E rebuild_ok \in BOOLEAN, start_ok \in BOOLEAN : Dashboard(c, rebuild_ok, start_ok)
       \/ CoursesList(c)
       \/ \E course_id \in {1, 4} : CourseDetail(c, course_id)
       \/ \E video_id \in {1, 4} : VideoDetail(c, video_id)
       \/ \E video_id \in {1, 4}, commit_ok \in BOOLEAN : CompleteVideo(c, video_id, commit_ok)
       \/ \E r \in NotesRequests : GenerateNotesApi(c, r[1], r[2], r[3], r[4])

Spec == Init /\ [][Next]_vars

(***************************************************************************)
(* Claims about the login check of the routes (Spec).                      *)
(***************************************************************************)
Anonymous == session[last'.client].user_id = NoUser

WorkRoutes ==
    {"get_answer", "profile", "change_password", "chat", "generate_quiz_api",
     "save_quiz_results", "complete_video", "generate_notes_api"}

LoginProtected ==
    WorkRoutes \cup {"tutor_index", "chat_page", "generate_quiz_page", "welcome",
                     "quiz_history", "dashboard", "video_detail"}

TurnedAway == last'.status \in {"302:login", "401"}

\* C4: a request made with no 'user_id' in the session changes the database
\* only by registering a new user, calls no external generator, and on
\* get_answer, profile, change_password, chat, generate_quiz_api,
\* save_quiz_results, complete_video and generate_notes_api is answered with
\* a redirect to login or a 401.
C4_AnonymousDoesNothing ==
    [][Anonymous =>
          /\ history' = history
          /\ completed' = completed
          /\ users' # users =>
                /\ last'.route = "register"
                /\ Len(users') = Len(users) + 1
                /\ SubSeq(users', 1, Len(users)) = users
          /\ last'.calls = <<>>
          /\ last'.route \in WorkRoutes => TurnedAway]_vars

\* C4 witness: with a user and a saved record in the database, an anonymous
\* save_quiz_results was sent to the login page.
C4_Witness ==
    /\ last.route = "save_quiz_results"
    /\ last.status = "302:login"
    /\ session[last.client].user_id = NoUser
    /\ users # <<>>
    /\ history # <<>>

\* C5: after logout the session has neither 'user_id' nor a chat_history_<id>
\* entry, and every later request to a login-protected route is treated as
\* unauthenticated until a login succeeds.
C5_LogoutClearsSession ==
    [][/\ last'.route = "logout" => session'[last'.client] = [user_id |-> NoUser, chat_history |-> {}]
       /\ (Anonymous /\ last'.route \in LoginProtected) => TurnedAway
       /\ (Anonymous /\ session'[last'.client].user_id # NoUser) =>
             last'.route = "login" /\ last'.status = "302:welcome"
       /\ \A c \in Clients : c # last'.client => session'[c] = session[c]]_vars

\* C5 witness: a user with a chat history in the session logged out.
C5_Witness ==
    /\ last.route = "logout"
    /\ last.before.user_id # NoUser
    /\ last.before.chat_history # {}
    /\ session[last.client] = [user_id |-> NoUser, chat_history |-> {}]

(***************************************************************************)
(* Quiz history: two browsers, two users, each saving results and looking  *)
(* at the history page.                                                    *)
(***************************************************************************)
InitHistory ==
    /\ users = <<>>
    /\ session = [c \in Clients |-> EmptySession]
    /\ history = <<>>
    /\ completed = {}
    /\ video_course = VideoCourse
    /\ gemini_configured = TRUE
    /\ chat_model = TRUE
    /\ model_reply = [kind |-> "raise"]
    /\ last = [route |-> "start", client |-> "c1", status |-> "", calls |-> <<>>,
               method |-> "GET"]

NextHistory ==
    \E c \in Clients :
       \/ \E email \in Emails : Register(c, "POST", email, 1, 1, 1, 1, 1, TRUE)
       \/ \E email \in Emails : Login(c, "POST", email, 1)
       \/ Logout(c)
       \/ \E score \in {JInt(1), JInt(3)} :
             SaveQuizResults(c, "dict", TopicT, score, JInt(3), DetailD, TRUE)
       \/ QuizHistoryPage(c)

SpecHistory == InitHistory /\ [][NextHistory]_vars

(***************************************************************************)
(* Claims about quiz_history (SpecHistory).                                *)
(***************************************************************************)
\* The positions in the table of the records of user u.
RecordsOf(table, u) == {i \in DOMAIN table : table[i].user_id = u}

\* `shown` is exactly the records of user u in `table`, the newest first.
ShowsExactly(shown, table, u) ==
    /\ Len(shown) = Cardinality(RecordsOf(table, u))
    /\ \E f \in [DOMAIN shown -> RecordsOf(table, u)] :
          /\ \A i, j \in DOMAIN shown : i < j => f[i] > f[j]
          /\ \A i \in DOMAIN shown : shown[i] = table[f[i]]

\* The records of user u, in the order of the table.
OwnRecords(table, u) == [i \in RecordsOf(table, u) |-> table[i]]

\* C11: the records quiz_history returns to a logged-in user are exactly the
\* QuizHistory records whose user_id is the session's user_id; no request of
\* a session of another user changes the records of a user, and a record
\* saved by user A is never returned to user B.
C11_OwnHistoryOnly ==
    [][/\ (last'.route = "quiz_history" /\ last'.status = "200") =>
             LET u == session'[last'.client].user_id
             IN  /\ u # NoUser
                 /\ ShowsExactly(last'.history, history', u)
                 /\ \A i \in DOMAIN last'.history : last'.history[i].user_id = u
       /\ \A u \in DOMAIN users :
             session[last'.client].user_id # u =>
                OwnRecords(history', u) = OwnRecords(history, u)]_vars

\* C11 witness: with a record of each of two users in the table, the history
\* page showed a user the one record that is theirs.
C11_Witness ==
    /\ last.route = "quiz_history"
    /\ last.status = "200"
    /\ Len(last.history) = 1
    /\ Len(history) = 2
    /\ history[1].user_id # history[2].user_id

(***************************************************************************)
(* Watching videos: two browsers, two users, the catalog of three videos   *)
(* and a video id that does not exist.                                     *)
(***************************************************************************)
InitVideos ==
    /\ users = <<>>
    /\ session = [c \in Clients |-> EmptySession]
    /\ history = <<>>
    /\ completed = {}
    /\ video_course = VideoCourse
    /\ gemini_configured = TRUE
    /\ chat_model = TRUE
    /\ model_reply = [kind |-> "raise"]
    /\ last = [route |-> "start", client |-> "c1", status |-> "", calls |-> <<>>,
               method |-> "GET"]

NextVideos ==
    \E c \in Clients :
       \/ \E email \in Emails : Register(c, "POST", email, 1, 1, 1, 1, 1, TRUE)
       \/ \E email \in Emails : Login(c, "POST", email, 1)
       \/ Logout(c)
       \/ \E video_id \in 1..4, commit_ok \in BOOLEAN : CompleteVideo(c, video_id, commit_ok)
       \/ \E video_id \in 1..4 : VideoDetail(c, video_id)

SpecVideos == InitVideos /\ [][NextVideos]_vars

(***************************************************************************)
(* Claims about complete_video (SpecVideos).                               *)
(***************************************************************************)
\* The videos user u has completed.
CompletedBy(set, u) == {v \in Videos : <<u, v>> \in set}

\* C12: complete_video marks the video complete for the session's user and
\* for no other user; completing the same video again leaves the user's
\* completed set unchanged; no route removes a video from a user's completed
\* set.
C12_CompleteVideo ==
    [][LET u == session[last'.client].user_id
           done == last'.route = "complete_video" /\ u # NoUser /\ last'.video_id \in Videos
       IN  /\ completed \subseteq completed'
           /\ completed' # completed => done
           /\ done =>
                 /\ \A w \in DOMAIN users :
                       w # u => CompletedBy(completed', w) = CompletedBy(completed, w)
                 /\ CompletedBy(completed', u) \subseteq CompletedBy(completed, u) \cup {last'.video_id}
                 /\ last'.commit_ok => last'.video_id \in CompletedBy(completed', u)
                 /\ last'.video_id \in CompletedBy(completed, u) =>
                       /\ completed' = completed
                       /\ last'.status = "302:course_detail"]_vars

\* C12 witness: a user completed a video that another user has completed
\* too, the completed sets of the two users being different.
C12_Witness ==
    /\ last.route = "complete_video"
    /\ last.status = "302:course_detail"
    /\ \E u, w \in DOMAIN users :
          /\ u # w
          /\ session[last.client].user_id = u
          /\ <<u, last.video_id>> \in completed
          /\ <<w, last.video_id>> \in completed
          /\ CompletedBy(completed, u) # CompletedBy(completed, w)

(***************************************************************************)
(* The dashboard of one logged-in user over catalogs of every size: course *)
(* 1 has up to MaxVideos videos, of which the user has completed the first *)
(* few; courses 2 and 3 have none.                                         *)
(***************************************************************************)
InitDashboard ==
    /\ users = <<UserInit(1, 1, 1, 1, 1, 1)>>
    /\ session = [c \in Clients |-> IF c = "c1" THEN [user_id |-> 1, chat_history |-> {}]
                                    ELSE EmptySession]
    /\ history = <<>>
    /\ \E total \in 0..MaxVideos, count \in 0..MaxVideos :
          /\ count <= total
          /\ video_course = [v \in 1..total |-> 1]
          /\ completed = {<<1, v>> : v \in 1..count}
    /\ gemini_configured = TRUE
    /\ chat_model \in BOOLEAN
    /\ model_reply = [kind |-> "raise"]
    /\ last = [route |-> "start", client |-> "c1", status |-> "", calls |-> <<>>,
               method |-> "GET"]

\* The user looks at the dashboard, and watches the videos in their order.
NextDashboard ==
    \/ \E rebuild_ok \in BOOLEAN, start_ok \in BOOLEAN : Dashboard("c1", rebuild_ok, start_ok)
    \/ \E commit_ok \in BOOLEAN :
          CompleteVideo("c1", Cardinality(completed) + 1, commit_ok)

SpecDashboard == InitDashboard /\ [][NextDashboard]_vars

(***************************************************************************)
(* Claims about the dashboard (SpecDashboard).                             *)
(***************************************************************************)
DashboardShown == last.route = "dashboard" /\ last.status = "200"

\* What the claim says the dashboard shows for a course with `total` videos
\* of which the user has completed `count`.
ProgressAsStated(shown, total, count) ==
    /\ (shown.status = "No Content" /\ shown.percentage = 0) <=> total = 0
    /\ total > 0 =>
          /\ shown.percentage = (100 * count) \div total
          /\ shown.status = "Completed" <=> count = total
          /\ shown.percentage \in 1..99 => shown.status = "In Progress"
          /\ shown.percentage = 0 => shown.status = "Not Started"

\* C13: for every course on the dashboard, status is 'No Content' with
\* percentage 0 exactly when the course has no videos; otherwise percentage is
\* the integer part of 100*completed/total, status is 'Completed' exactly
\* when every video of the course is completed, 'In Progress' when the
\* percentage is between 1 and 99, and 'Not Started' when it is 0.
C13_DashboardProgress ==
    DashboardShown =>
        \A course \in Courses :
            ProgressAsStated(last.progress_data[course],
                             Cardinality(VideosOf(course)),
                             Cardinality({v \in VideosOf(course) :
                                             <<session[last.client].user_id, v>> \in completed}))

\* C13 witness: the dashboard of a user who has completed 29 of the 50 videos
\* of a course shows 57 percent.
C13_Witness ==
    /\ DashboardShown
    /\ Cardinality(VideosOf(1)) = 50
    /\ Cardinality({v \in VideosOf(1) : <<1, v>> \in completed}) = 29
    /\ last.progress_data[1].percentage = 57
    /\ last.progress_data[1].status = "In Progress"

(***************************************************************************)
(* Claims about change_password (SpecAuth).                                *)
(***************************************************************************)
HashChanged(i) == i \in DOMAIN users' /\ users'[i].password_hash # users[i].password_hash

PasswordChanged == last'.route = "change_password" /\ last'.flash = "success"

\* C14: change_password changes the stored hash of the session user only
\* when the submitted current password checks against the stored hash and
\* new_password equals confirm_password; in every other case no hash changes,
\* and no other user's hash ever changes; after a successful change the
\* stored hash is a hash of the new password, the user's email finds that
\* user, and a login POST with the email and password of a user logs in as
\* that user.
C14_ChangePassword ==
    [][/\ \A i \in DOMAIN users :
             HashChanged(i) =>
                 /\ last'.route = "change_password"
                 /\ session[last'.client].user_id = i
                 /\ last'.current # NoneV
                 /\ check_password(users[i], last'.current)
                 /\ last'.new = last'.confirm
       /\ PasswordChanged =>
             LET uid == session[last'.client].user_id
             IN  /\ PasswordMatches(users'[uid], last'.new)
                 /\ \A j \in DOMAIN users' : users'[j].email = users'[uid].email => j = uid
       /\ \A c \in Clients, i \in DOMAIN users :
             ( /\ LoginPost(c)
               /\ users[i].email = last'.email
               /\ PasswordMatches(users[i], last'.password) )
                 => session'[c].user_id = i]_vars

\* C14 witness: with two users registered, the session user changed the
\* password to a different one: the stored hash is a hash of the new password
\* and no longer of the current one that was submitted.
C14_Witness ==
    /\ Len(users) = 2
    /\ last.route = "change_password"
    /\ last.flash = "success"
    /\ last.new # last.current
    /\ PasswordMatches(users[session[last.client].user_id], last.new)
    /\ ~PasswordMatches(users[session[last.client].user_id], last.current)

(***************************************************************************)
(* The notes API alone: two browsers register, log in and out, and post    *)
(* every kind of body, topic, model response and document result, with and *)
(* without a configured Gemini key.                                        *)
(***************************************************************************)
InitNotes ==
    /\ users = <<>>
    /\ session = [c \in Clients |-> EmptySession]
    /\ history = <<>>
    /\ completed = {}
    /\ video_course = VideoCourse
    /\ gemini_configured \in BOOLEAN
    /\ chat_model = TRUE
    /\ model_reply = [kind |-> "raise"]
    /\ last = [route |-> "start", client |-> "c1", status |-> "", calls |-> <<>>,
               method |-> "GET"]

NextNotes ==
    \E c \in Clients :
       \/ \E email \in Emails : Register(c, "POST", email, 1, 1, 1, 1, 1, TRUE)
       \/ \E email \in Emails : Login(c, "POST", email, 1)
       \/ Logout(c)
       \/ \E body \in Bodies, topic \in {NoneV, EmptyStr, 1}, response \in NotesResponses,
             doc \in DocResults :
             GenerateNotesApi(c, body, topic, response, doc)

SpecNotes == InitNotes /\ [][NextNotes]_vars

(***************************************************************************)
(* Claims about generate_notes_api (SpecNotes).                            *)
(***************************************************************************)
NotesAnswered == last.route = "generate_notes_api"

\* The body is an object with a topic.
NotesTopicGiven == last.body = "dict" /\ Truthy(last.topic)

InitAnswer ==
    /\ users = <<>>
    /\ session = [c \in Clients |-> EmptySession]
    /\ history = <<>>
    /\ completed = {}
    /\ video_course = VideoCourse
    /\ gemini_configured = TRUE
    /\ chat_model = TRUE
    /\ model_reply = [kind |-> "raise"]
    /\ last = [route |-> "start", client |-> "c1", status |-> "", calls |-> <<>>,
               method |-> "GET"]

NextAnswer ==
    \E c \in Clients :
       \/ \E email \in Emails : Register(c, "POST", email, 1, 1, 1, 1, 1, TRUE)
       \/ \E email \in Emails : Login(c, "POST", email, 1)
       \/ Logout(c)
       \/ \E query \in {NoneV, EmptyStr, 1}, text \in {"value", "raise"},
             audio \in Outcomes, video \in Outcomes, image \in Outcomes :
             GetAnswer(c, query, text, audio, video, image)

SpecAnswer == InitAnswer /\ [][NextAnswer]_vars

(***************************************************************************)
(* Claims about get_answer (SpecAnswer).                                   *)
(***************************************************************************)
AnswerAsked == last.route = "get_answer" /\ LoggedIn(last.client)

\* C16: for a logged-in user and a non-empty query, get_answer calls the
\* text, audio, video and image generators in that order whatever any of
\* them does; a generator that raises is replaced by its fallback (the
\* apology text, None, [], []); the audio is generated from the text that is
\* shown, the apology included; and the lesson page is rendered.  With an
\* empty or missing query no generator is called.
C16_GetAnswerIsolatesFailures ==
    AnswerAsked =>
        IF Truthy(last.query)
        THEN /\ last.calls = <<"text", "audio", "video", "image">>
             /\ last.status = "200"
             /\ last.text_answer = "apology" <=> last.text = "raise"
             /\ last.audio_text = last.text_answer
             /\ last.audio = "raise" => last.audio_url = "None"
             /\ last.video = "raise" => last.top_videos = "[]"
             /\ last.image = "raise" => last.top_images = "[]"
        ELSE /\ last.calls = <<>>
             /\ last.status = "302:tutor_index"

\* C16 witness: the text generator and the video search raised; the page
\* shows the apology, the audio was made of the apology, and the images
\* found after the failures are on the page.
C16_Witness ==
    /\ AnswerAsked
    /\ Truthy(last.query)
    /\ last.text = "raise"
    /\ last.video = "raise"
    /\ last.status = "200"
    /\ last.audio_text = "apology"
    /\ last.audio_url = "url"
    /\ last.top_videos = "[]"
    /\ last.top_images = "images"

====
